---- MODULE Spec2Model ----
(***************************************************************************)
(* OpenAIAssistantAgent (cookbook/openai-assistant-agent.ipynb): the four  *)
(* message handlers of the agent, the vendor state they act on (thread     *)
(* messages, file store, thread tool resources, vector-store file batch)   *)
(* and the caller's cancellation token.  A handler is a sequence of await  *)
(* points ("sites"); one action completes the call pending at one site and *)
(* runs the handler's synchronous code up to its next await.               *)
(***************************************************************************)
EXTENDS Integers, Sequences, FiniteSets, TLC

\* ------------------------------------------------------------------ bounds
MaxInitMsgs == 3
MaxNewMsgs == 2
MaxPage == 3
MaxStarts == 2
MaxFiles == 2

MaxMsgId == MaxInitMsgs + MaxNewMsgs

\* The handler invocations that may be in flight at the same time.
Handlers == {"h1", "h2"}

\* --------------------------------------------------------------- messages
AgentType == "assistant"
Sources == {"user", "assistant"}
Contents == {"hello"}

NoMessage == [type |-> "None", content |-> "None", source |-> "None"]
NoReply == [content |-> "None", source |-> "None"]

TextMessage(content, source) == [type |-> "TextMessage", content |-> content, source |-> source]
Reset == [type |-> "Reset", content |-> "None", source |-> "None"]
UploadForCodeInterpreter == [type |-> "UploadForCodeInterpreter", content |-> "None", source |-> "None"]
UploadForFileSearch == [type |-> "UploadForFileSearch", content |-> "None", source |-> "None"]

Messages ==
    {TextMessage(c, s) : c \in Contents, s \in Sources}
        \cup {Reset, UploadForCodeInterpreter, UploadForFileSearch}

\* ------------------------------------------------------------ await sites
\* The awaits wrapped in ctx.cancellation_token.link_future(...).
LinkedSitesWithoutListLast ==
    {"messages_create", "until_done", "messages_list", "messages_delete",
     "file_read", "files_create", "threads_retrieve", "threads_update", "upload_and_poll"}
LinkedSitesWithoutUntilDone ==
    {"messages_create", "messages_list_last", "messages_list", "messages_delete",
     "file_read", "files_create", "threads_retrieve", "threads_update", "upload_and_poll"}
LinkedSitesWithoutThreadCalls ==
    {"messages_create", "until_done", "messages_list_last", "messages_list", "messages_delete",
     "file_read", "files_create", "upload_and_poll"}
LinkedSites ==
    {"messages_create", "until_done", "messages_list_last", "messages_list", "messages_delete",
     "file_read", "files_create", "threads_retrieve", "threads_update", "upload_and_poll"}
\* The awaits of `async with`: entering and leaving runs.stream(...), opening
\* and closing the local file.  None goes through the token.
UnlinkedSites == {"runs_stream", "stream_exit", "file_open", "file_close"}
\* The sites whose pending call is a call to the vendor.
RemoteCallSites ==
    {"messages_create", "runs_stream", "until_done", "messages_list_last", "messages_list",
     "messages_delete", "files_create", "threads_retrieve", "threads_update", "upload_and_poll"}

\* ---------------------------------------------------------------- helpers
Min(a, b) == IF a < b THEN a ELSE b
Range(s) == {s[i] : i \in 1..Len(s)}
Reverse(s) == [i \in 1..Len(s) |-> s[Len(s) + 1 - i]]
Ids(s) == [i \in 1..Len(s) |-> s[i].id]

\* ------------------------------------------------------------ vendor state
TextPart(v) == [type |-> "text", value |-> v]
ImagePart == [type |-> "image_file", value |-> "img"]

UserMessage(id, content, source) ==
    [id |-> id, role |-> "user", content |-> <<TextPart(content)>>, sender |-> source]
AssistantMessage(id, parts) ==
    [id |-> id, role |-> "assistant", content |-> parts, sender |-> "None"]

\* What one run may add to the thread: nothing (a run that fails or expires),
\* or one assistant message.
RunOutputs ==
    {<<>>, <<TextPart("a1")>>, <<ImagePart>>, <<ImagePart, TextPart("a1"), TextPart("a2")>>}

\* thread.tool_resources as the vendor returns it: absent, present without a
\* code_interpreter entry, or present with one.
NoToolResources == [exists |-> FALSE, code_interpreter |-> FALSE, file_ids |-> <<>>]
ToolResources == [exists |-> TRUE, code_interpreter |-> FALSE, file_ids |-> <<>>]
InitToolResources ==
    {NoToolResources, ToolResources, [exists |-> TRUE, code_interpreter |-> TRUE, file_ids |-> <<>>]}

InitThread(n) == [i \in 1..n |-> UserMessage(i, "old", "user")]

\* client.beta.threads.messages.list(thread_id, order, after, limit): one page.
MessagesListPage(thread, order, after, limit) ==
    LET ordered == IF order = "asc" THEN thread ELSE Reverse(thread)
        start == IF after = 0
                 THEN 1
                 ELSE (CHOOSE i \in 1..Len(ordered) : ordered[i].id = after) + 1
        end == Min(start + limit - 1, Len(ordered))
    IN [data |-> SubSeq(ordered, start, end), has_more |-> end < Len(ordered)]

\* msgs.has_next_page() of the vendor's client library: a page without items
\* has no next page, whatever its has_more flag says.
HasNextPageUntilEmpty(msgs) == msgs.data # <<>>
HasMoreFlag(msgs) == msgs.has_more
has_next_page(msgs) == msgs.data # <<>> /\ msgs.has_more

VMessagesCreate(v, content, source) ==
    [v EXCEPT !.thread = Append(@, UserMessage(v.next_id, content, source)),
              !.next_id = @ + 1]
VRunAdds(v, parts) ==
    [v EXCEPT !.thread = Append(@, AssistantMessage(v.next_id, parts)),
              !.next_id = @ + 1]
VMessagesDelete(v, msg_id) ==
    [v EXCEPT !.thread = SelectSeq(@, LAMBDA m : m.id # msg_id)]
VFilesCreate(v) ==
    [v EXCEPT !.files = @ \cup {v.next_file}, !.next_file = @ + 1]
VThreadsUpdateMerging(v, file_ids) ==
    [v EXCEPT !.tool_resources =
        [exists |-> TRUE, code_interpreter |-> TRUE,
         file_ids |-> @.file_ids \o SelectSeq(file_ids, LAMBDA f : f \notin Range(@.file_ids))]]
VThreadsUpdate(v, file_ids) ==
    [v EXCEPT !.tool_resources =
        [exists |-> TRUE, code_interpreter |-> TRUE, file_ids |-> file_ids]]

\* ------------------------------------------------------------------ state
VARIABLES vendor, hs, delivered

vars == <<vendor, hs, delivered>>

Fresh ==
    [pc |-> "idle", message |-> NoMessage, cancelled |-> FALSE, cancelled_at |-> "None",
     outcome |-> "none", reply |-> NoReply,
     all_msgs |-> <<>>, del_i |-> 0,
     file |-> 0, retrieved |-> FALSE, tool_resources |-> NoToolResources, file_ids |-> <<>>,
     batch |-> "none",
     list_calls |-> 0, delete_calls |-> 0, deleted |-> {}, ids0 |-> {},
     interfered |-> FALSE, my_msg |-> 0, run_msgs |-> {}, reply_from |-> 0,
     issued |-> <<>>, cancelled_n |-> 0, last_message_content |-> <<>>, listed_upto |-> 0]

\* The vendor after the notebook's setup.  flag_past_end tells whether this
\* vendor sets has_more on a page that reaches the end of the thread.
Vendors(flags) ==
    {[thread |-> InitThread(n), next_id |-> n + 1,
      files |-> {}, next_file |-> 1, tool_resources |-> tr,
      page_size |-> ps, default_order |-> o, flag_past_end |-> f] :
        n \in 0..MaxInitMsgs, tr \in InitToolResources,
        ps \in 1..MaxPage, o \in {"asc", "desc"}, f \in flags}

Init ==
    /\ vendor \in Vendors({FALSE})
    /\ hs = [p \in Handlers |-> Fresh]
    /\ delivered = 0

\* -------------------------------------------------- the cancellation token
\* `await ctx.cancellation_token.link_future(asyncio.ensure_future(call))`:
\* on a token already triggered the future is cancelled before the call is
\* issued; an await outside the token suspends whatever the token's state.
Await(r, site) ==
    IF r.cancelled /\ site \in LinkedSites
    THEN [r EXCEPT !.pc = "done", !.outcome = "cancelled"]
    ELSE [r EXCEPT !.pc = site, !.issued = Append(@, site)]

Finish(r, outcome) == [r EXCEPT !.pc = "done", !.outcome = outcome]

\* Handler p moves to r and the vendor to v; a write to the thread is noted
\* on every other invocation that has started.
Commit(p, r, v) ==
    /\ vendor' = v
    /\ hs' = [q \in Handlers |->
                IF q = p THEN r
                ELSE IF v.thread # vendor.thread /\ hs[q].pc # "idle"
                     THEN [hs[q] EXCEPT !.interfered = TRUE]
                     ELSE hs[q]]
    /\ UNCHANGED delivered

\* ---------------------------------------------------------------- runtime
FirstSite(message) ==
    CASE message.type = "TextMessage" -> "messages_create"
      [] message.type = "Reset" -> "messages_list"
      [] OTHER -> "file_open"

\* The runtime delivers a message: a handler invocation starts.
Deliver(p, m) ==
    /\ hs[p].pc \in {"idle", "done"}
    /\ delivered < MaxStarts
    /\ hs' = [hs EXCEPT ![p] =
                Await([Fresh EXCEPT !.message = m, !.ids0 = Range(Ids(vendor.thread))],
                      FirstSite(m))]
    /\ delivered' = delivered + 1
    /\ UNCHANGED vendor

Start(p) == \E m \in Messages : Deliver(p, m)

\* --------------------------------------------------------- handle_message
MessagesCreate(p) ==
    LET r == hs[p] IN
    /\ r.pc = "messages_create"
    /\ vendor.next_id <= MaxMsgId
    /\ Commit(p, Await([r EXCEPT !.my_msg = vendor.next_id], "runs_stream"),
              VMessagesCreate(vendor, r.message.content, r.message.source))

RunsStreamWithoutWait(p) ==
    /\ hs[p].pc = "runs_stream"
    /\ Commit(p, Await(hs[p], "stream_exit"), vendor)

RunsStream(p) ==
    /\ hs[p].pc = "runs_stream"
    /\ Commit(p, Await(hs[p], "until_done"), vendor)

UntilDone(p) ==
    LET r == hs[p] IN
    /\ r.pc = "until_done"
    /\ \E parts \in RunOutputs :
        IF parts = <<>>
        THEN Commit(p, Await(r, "stream_exit"), vendor)
        ELSE /\ vendor.next_id <= MaxMsgId
             /\ Commit(p, Await([r EXCEPT !.run_msgs = @ \cup {vendor.next_id}], "stream_exit"),
                       VRunAdds(vendor, parts))

StreamExit(p) ==
    /\ hs[p].pc = "stream_exit"
    /\ Commit(p, Await(hs[p], "messages_list_last"), vendor)

AllContent(last_message_content) == last_message_content
TextContent(last_message_content) ==
    SelectSeq(last_message_content, LAMBDA content : content.type = "text")

ReplySourceOfCaller(message) == message.source
ReplySource(message) == AgentType

MessagesListLast(p) ==
    LET r == hs[p]
        messages == MessagesListPage(vendor.thread, "desc", 0, 1)
    IN
    /\ r.pc = "messages_list_last"
    /\ IF messages.data = <<>>
       THEN Commit(p, Finish(r, "IndexError"), vendor)
       ELSE LET last_message_content == messages.data[1].content
                text_content == TextContent(last_message_content)
                fetched == [r EXCEPT !.last_message_content = last_message_content]
            IN
            IF text_content = <<>>
            THEN Commit(p, Finish(fetched, "ValueError"), vendor)
            ELSE Commit(p,
                        Finish([fetched EXCEPT !.reply = [content |-> text_content[1].value,
                                                          source |-> ReplySource(r.message)],
                                               !.reply_from = messages.data[1].id],
                               "returned"),
                        vendor)

\* --------------------------------------------------------------- on_reset
\* The longest pagination: one item a page, and a last empty page.
MaxListCalls == MaxMsgId + 1

\* The page self._client.beta.threads.messages.list(thread_id[, after]) returns.
VendorPage(after) ==
    LET page == MessagesListPage(vendor.thread, vendor.default_order, after, vendor.page_size)
    IN [page EXCEPT !.has_more = @ \/ vendor.flag_past_end]

\* `if not msgs.has_next_page(): break`
ResetStopsAfterFirstPage(msgs) == FALSE
ResetContinues(msgs) == has_next_page(msgs)

\* One pass of the `while True` loop: the list call returns, its ids are
\* appended, and the loop either goes round or falls through to the deletes.
MessagesList(p) ==
    LET r == hs[p]
        after == IF r.all_msgs = <<>> THEN 0 ELSE r.all_msgs[Len(r.all_msgs)]
    IN
    /\ r.pc = "messages_list"
    /\ r.list_calls < MaxListCalls
    /\ IF after # 0 /\ after \notin Range(Ids(vendor.thread))
       THEN Commit(p, Finish([r EXCEPT !.list_calls = @ + 1], "VendorError"), vendor)
       ELSE LET msgs == VendorPage(after)
                all_msgs == r.all_msgs \o Ids(msgs.data)
                listed == [r EXCEPT !.all_msgs = all_msgs, !.list_calls = @ + 1,
                                    !.listed_upto = vendor.next_id]
            IN IF ResetContinues(msgs)
               THEN Commit(p, Await(listed, "messages_list"), vendor)
               ELSE IF all_msgs = <<>>
                    THEN Commit(p, Finish(listed, "returned"), vendor)
                    ELSE Commit(p, Await([listed EXCEPT !.del_i = 1], "messages_delete"), vendor)

\* `for msg_id in all_msgs`: the id the loop has reached.
NewestMsgId(r) ==
    IF vendor.thread = <<>> THEN r.all_msgs[r.del_i] ELSE vendor.thread[Len(vendor.thread)].id
NextMsgId(r) == r.all_msgs[r.del_i]

\* `assert status.deleted is True`
StatusIgnored(deleted) == TRUE
StatusDeleted(deleted) == deleted

\* One pass of `for msg_id in all_msgs`: the delete call returns a status and
\* the handler asserts status.deleted.
MessagesDelete(p) ==
    LET r == hs[p]
        msg_id == NextMsgId(r)
    IN
    /\ r.pc = "messages_delete"
    /\ \E deleted \in {b \in BOOLEAN : b => msg_id \in Range(Ids(vendor.thread))} :
        LET called == [r EXCEPT !.delete_calls = @ + 1,
                                !.deleted = IF deleted THEN @ \cup {msg_id} ELSE @]
            v == IF deleted THEN VMessagesDelete(vendor, msg_id) ELSE vendor
        IN IF ~StatusDeleted(deleted)
           THEN Commit(p, Finish(called, "AssertionError"), v)
           ELSE IF r.del_i = Len(r.all_msgs)
                THEN Commit(p, Finish(called, "returned"), v)
                ELSE Commit(p, Await([called EXCEPT !.del_i = @ + 1], "messages_delete"), v)

\* ---------------------------------------------------- the two upload handlers
FileOpen(p) ==
    /\ hs[p].pc = "file_open"
    /\ Commit(p, Await(hs[p], "file_read"), vendor)

FileRead(p) ==
    /\ hs[p].pc = "file_read"
    /\ Commit(p, Await(hs[p], "file_close"), vendor)

FileClose(p) ==
    /\ hs[p].pc = "file_close"
    /\ Commit(p,
              Await(hs[p], IF hs[p].message.type = "UploadForCodeInterpreter"
                           THEN "files_create"
                           ELSE "upload_and_poll"),
              vendor)

FilesCreate(p) ==
    LET r == hs[p] IN
    /\ r.pc = "files_create"
    /\ vendor.next_file <= MaxFiles
    /\ Commit(p, Await([r EXCEPT !.file = vendor.next_file], "threads_retrieve"),
              VFilesCreate(vendor))

\* `if tool_resources.code_interpreter.file_ids: ... else: file_ids = [file.id]`
AppendFileId(existing, file) == Append(existing, file)
NewFileIds(existing, file) == IF existing # <<>> THEN existing ELSE <<file>>

ThreadsRetrieve(p) ==
    LET r == hs[p]
        tool_resources == IF vendor.tool_resources.exists
                          THEN vendor.tool_resources
                          ELSE ToolResources
        read == [r EXCEPT !.retrieved = TRUE, !.tool_resources = tool_resources]
    IN
    /\ r.pc = "threads_retrieve"
    /\ IF ~tool_resources.code_interpreter
       THEN Commit(p, Finish(read, "AssertionError"), vendor)
       ELSE Commit(p,
                   Await([read EXCEPT !.file_ids = NewFileIds(tool_resources.file_ids, r.file)],
                         "threads_update"),
                   vendor)

ThreadsUpdate(p) ==
    /\ hs[p].pc = "threads_update"
    /\ Commit(p, Finish(hs[p], "returned"), VThreadsUpdate(vendor, hs[p].file_ids))

\* upload_and_poll: the vendor takes the batch, indexes it, and the poll
\* returns once the batch's status is no longer in_progress.
BatchUpload(p) ==
    /\ hs[p].pc = "upload_and_poll"
    /\ hs[p].batch = "none"
    /\ Commit(p, [hs[p] EXCEPT !.batch = "in_progress"], vendor)

BatchIndex(p) ==
    /\ hs[p].pc = "upload_and_poll"
    /\ hs[p].batch = "in_progress"
    /\ \E status \in {"completed", "failed"} :
        Commit(p, [hs[p] EXCEPT !.batch = status], vendor)

UploadWithoutPoll(status) == status # "none"
PollDone(status) == status \in {"completed", "failed"}

UploadAndPoll(p) ==
    /\ hs[p].pc = "upload_and_poll"
    /\ PollDone(hs[p].batch)
    /\ Commit(p, Finish(hs[p], "returned"), vendor)

\* ------------------------------------------------------------ cancellation
\* The vendor states an aborted call may leave: the call took effect at the
\* vendor before it was aborted, or it did not.
AbortedCall(r) ==
    {vendor} \cup
    CASE r.pc = "messages_create" /\ vendor.next_id <= MaxMsgId ->
            {VMessagesCreate(vendor, r.message.content, r.message.source)}
      [] r.pc = "until_done" /\ vendor.next_id <= MaxMsgId ->
            {VRunAdds(vendor, parts) : parts \in RunOutputs \ {<<>>}}
      [] r.pc = "messages_delete" -> {VMessagesDelete(vendor, r.all_msgs[r.del_i])}
      [] r.pc = "files_create" /\ vendor.next_file <= MaxFiles -> {VFilesCreate(vendor)}
      [] r.pc = "threads_update" -> {VThreadsUpdate(vendor, r.file_ids)}
      [] OTHER -> {}

\* The caller triggers the token of an invocation in flight.  A pending call
\* that was linked to the token is aborted and the handler ends with the
\* cancellation; any other await goes on.
Cancel(p) ==
    LET r == hs[p]
        c == [r EXCEPT !.cancelled = TRUE, !.cancelled_at = r.pc,
                       !.cancelled_n = Len(r.issued)]
    IN
    /\ r.pc \notin {"idle", "done"}
    /\ ~r.cancelled
    /\ IF r.pc \in LinkedSites
       THEN \E v \in AbortedCall(r) : Commit(p, Finish(c, "cancelled"), v)
       ELSE Commit(p, c, vendor)

\* The runtime delivers one message at a time to the agent: a single
\* invocation exists, and the one that ended gives way to the next.
SerialSlot == "h1"

StartSerial(p) ==
    /\ p = SerialSlot
    /\ Start(p)

Next ==
    \E p \in Handlers :
        \/ StartSerial(p)
        \/ MessagesCreate(p)
        \/ RunsStream(p)
        \/ UntilDone(p)
        \/ StreamExit(p)
        \/ MessagesListLast(p)
        \/ MessagesList(p)
        \/ MessagesDelete(p)
        \/ FileOpen(p)
        \/ FileRead(p)
        \/ FileClose(p)
        \/ FilesCreate(p)
        \/ ThreadsRetrieve(p)
        \/ ThreadsUpdate(p)
        \/ BatchUpload(p)
        \/ BatchIndex(p)
        \/ UploadAndPoll(p)
        \/ Cancel(p)

Spec == Init /\ [][Next]_vars

\* Two invocations in flight at once: the runtime delivers a second message
\* while the handler of the first is suspended at an await.  No token is
\* triggered.  Each slot takes one delivery; the slots are interchangeable,
\* so the first delivery takes SerialSlot.
StartConcurrent(p) ==
    /\ hs[p].pc = "idle"
    /\ p = SerialSlot \/ hs[SerialSlot].pc # "idle"
    /\ Start(p)

NextConcurrent ==
    \E p \in Handlers :
        \/ StartConcurrent(p)
        \/ MessagesCreate(p)
        \/ RunsStream(p)
        \/ UntilDone(p)
        \/ StreamExit(p)
        \/ MessagesListLast(p)
        \/ MessagesList(p)
        \/ MessagesDelete(p)
        \/ FileOpen(p)
        \/ FileRead(p)
        \/ FileClose(p)
        \/ FilesCreate(p)
        \/ ThreadsRetrieve(p)
        \/ ThreadsUpdate(p)
        \/ BatchUpload(p)
        \/ BatchIndex(p)
        \/ UploadAndPoll(p)

SpecConcurrent == Init /\ [][NextConcurrent]_vars

\* Reset messages delivered one at a time to a thread nothing else writes
\* to, no token triggered, and every list and delete call the handler awaits
\* returns in the end.
StartReset(p) ==
    /\ p = SerialSlot
    /\ Deliver(p, Reset)

NextTermination ==
    \E p \in Handlers :
        \/ StartReset(p)
        \/ MessagesList(p)
        \/ MessagesDelete(p)

InitTermination ==
    /\ vendor \in Vendors(BOOLEAN)
    /\ hs = [p \in Handlers |-> Fresh]
    /\ delivered = 0

CallsReturn ==
    \A p \in Handlers : WF_vars(MessagesList(p)) /\ WF_vars(MessagesDelete(p))

SpecTermination == InitTermination /\ [][NextTermination]_vars /\ CallsReturn

\* ================================================================ claims
Max(a, b) == IF a > b THEN a ELSE b
Ceil(n, d) == (n + d - 1) \div d

IsDone(p, type, outcome) ==
    hs[p].message.type = type /\ hs[p].pc = "done" /\ hs[p].outcome = outcome

\* C1: a Reset that ran to completion (every delete reported success, no
\* other writer on the thread since it started) leaves the thread without
\* messages: a list call made then returns no message.
C1_ResetEmptiesThread ==
    \A p \in Handlers :
        (IsDone(p, "Reset", "returned") /\ ~hs[p].interfered)
            => MessagesListPage(vendor.thread, vendor.default_order, 0,
                                vendor.page_size).data = <<>>

C1_Witness ==
    \E p \in Handlers :
        /\ IsDone(p, "Reset", "returned")
        /\ ~hs[p].interfered
        /\ Cardinality(hs[p].ids0) > vendor.page_size
        /\ hs[p].deleted = hs[p].ids0

\* C2 as stated: with no other writer, a Reset of a thread of N messages
\* under page size P issues exactly ceil(N/P) list calls and exactly N
\* delete calls, one per distinct message id of the thread.
C2_ResetCallCounts ==
    \A p \in Handlers :
        (IsDone(p, "Reset", "returned") /\ ~hs[p].interfered)
            => /\ hs[p].list_calls = Ceil(Cardinality(hs[p].ids0), vendor.page_size)
               /\ hs[p].delete_calls = Cardinality(hs[p].ids0)
               /\ hs[p].deleted = hs[p].ids0

\* C2 amended: the list calls are max(1, ceil(N/P)): an empty thread still
\* costs the one list call that finds it empty.  The N deletes, one per
\* distinct message id, stand.
C2_ResetCallCountsAmended ==
    \A p \in Handlers :
        (IsDone(p, "Reset", "returned") /\ ~hs[p].interfered)
            => /\ hs[p].list_calls =
                    Max(1, Ceil(Cardinality(hs[p].ids0), vendor.page_size))
               /\ hs[p].delete_calls = Cardinality(hs[p].ids0)
               /\ hs[p].deleted = hs[p].ids0
               /\ Len(hs[p].all_msgs) = Cardinality(hs[p].ids0)

C2_Witness ==
    \E p \in Handlers :
        /\ IsDone(p, "Reset", "returned")
        /\ ~hs[p].interfered
        /\ Cardinality(hs[p].ids0) = 3
        /\ vendor.page_size = 2
        /\ hs[p].list_calls = 2
        /\ hs[p].delete_calls = 3

\* C3: every reply of the TextMessage handler carries the agent's own type
\* as its source, whatever the source of the incoming message.
C3_ReplySourceIsAgent ==
    \A p \in Handlers :
        IsDone(p, "TextMessage", "returned") => hs[p].reply.source = AgentType

C3_Witness ==
    \E p \in Handlers :
        /\ IsDone(p, "TextMessage", "returned")
        /\ hs[p].message.source # AgentType
        /\ hs[p].reply.source = AgentType

\* C4: a reply of the TextMessage handler is taken from a message that the
\* request's own run added to the thread, never from the user message the
\* handler appended itself.
C4_ReplyIsAssistantResponse ==
    \A p \in Handlers :
        IsDone(p, "TextMessage", "returned")
            => /\ hs[p].reply_from \in hs[p].run_msgs
               /\ hs[p].reply_from # hs[p].my_msg

C6_PushedListHoldsNewFile ==
    \A p \in Handlers :
        IsDone(p, "UploadForCodeInterpreter", "returned")
            => hs[p].file \in Range(hs[p].file_ids)

\* C7: when the thread read by the upload-for-code-interpreter handler has
\* no tool resources, or none for the code interpreter, the handler does not
\* fail and takes the list holding just the new file id.
C7_DefaultsWithoutCodeInterpreter ==
    \A p \in Handlers :
        (hs[p].message.type = "UploadForCodeInterpreter"
            /\ hs[p].retrieved /\ ~hs[p].tool_resources.code_interpreter)
            => /\ hs[p].outcome # "AssertionError"
               /\ hs[p].file_ids = <<hs[p].file>>

\* C8: the upload-for-file-search handler returns only once the vendor has
\* reported the file batch as no longer in progress.
C8_FileSearchReturnsAfterPoll ==
    \A p \in Handlers :
        IsDone(p, "UploadForFileSearch", "returned")
            => hs[p].batch \in {"completed", "failed"}

C8_Witness ==
    \E p \in Handlers :
        IsDone(p, "UploadForFileSearch", "returned") /\ hs[p].batch = "completed"

\* C9: a handler whose token was triggered while it was in flight ends with
\* the cancellation: it returns neither a reply nor anything else.
C9_CancelledHandlerEndsCancelled ==
    \A p \in Handlers :
        hs[p].cancelled
            => /\ hs[p].pc = "done" => hs[p].outcome = "cancelled"
               /\ hs[p].reply = NoReply

C9_Witness ==
    \E p \in Handlers :
        /\ hs[p].pc = "done"
        /\ hs[p].outcome = "cancelled"
        /\ hs[p].cancelled_at = "runs_stream"
        /\ hs[p].my_msg \in Range(Ids(vendor.thread))

\* C10: every remote call is awaited through the token, so no handler stays
\* suspended on a remote call once its token has been triggered.
C10_EveryRemoteCallAbortsOnCancel ==
    \A p \in Handlers :
        hs[p].pc \in RemoteCallSites => ~hs[p].cancelled

\* C11: once the token is triggered while a handler awaits a remote call,
\* that handler issues no further remote call: every await it enters after
\* the trigger is a local one (leaving the stream context, closing the file),
\* so no remaining step and no compensating call reaches the vendor.
C11_NoRemoteCallAfterCancel ==
    \A p \in Handlers :
        (hs[p].cancelled /\ hs[p].cancelled_at \in RemoteCallSites)
            => \A i \in (hs[p].cancelled_n + 1)..Len(hs[p].issued) :
                    hs[p].issued[i] \notin RemoteCallSites

\* The token is triggered while the run is being created (a call that is not
\* linked to it); the run creation returns and the handler ends there.
C11_Witness ==
    \E p \in Handlers :
        /\ IsDone(p, "TextMessage", "cancelled")
        /\ hs[p].cancelled_at = "runs_stream"
        /\ hs[p].issued = <<"messages_create", "runs_stream">>

\* C12: when the newest message fetched after the run has no text-typed
\* part the TextMessage handler ends with the ValueError and no reply; it
\* returns a reply only when a text part exists, and the reply's content is
\* the value of the first text part of that message.
C12_NoTextPartFailsElseFirstText ==
    \A p \in Handlers :
        LET content == hs[p].last_message_content
            texts == {i \in 1..Len(content) : content[i].type = "text"}
        IN
        (hs[p].message.type = "TextMessage" /\ hs[p].pc = "done" /\ content # <<>>)
            => /\ texts = {} => (hs[p].outcome = "ValueError" /\ hs[p].reply = NoReply)
               /\ hs[p].outcome = "returned" =>
                    \E i \in texts :
                        /\ \A j \in texts : i <= j
                        /\ hs[p].reply.content = content[i].value
               /\ hs[p].reply # NoReply => hs[p].outcome = "returned"

\* The newest message after the run holds only an image: the handler ends
\* with the ValueError and no reply.
C12_Witness ==
    /\ IsDone(SerialSlot, "TextMessage", "ValueError")
    /\ hs[SerialSlot].last_message_content = <<ImagePart>>
    /\ hs[SerialSlot].reply = NoReply

\* The newest message holds an image, then two text parts: the reply is the
\* first text part.
C12_WitnessFirstText ==
    /\ IsDone(SerialSlot, "TextMessage", "returned")
    /\ hs[SerialSlot].last_message_content = <<ImagePart, TextPart("a1"), TextPart("a2")>>
    /\ hs[SerialSlot].reply.content = "a1"

\* C14: when the token is triggered on an upload-for-code-interpreter handler
\* after its file create returned and before its thread update committed, the
\* handler ends with the cancellation, the file is in the vendor's file store
\* (nothing deleted it) and it is not in the thread's file id list.  A file
\* found in the list means the aborted update had already taken effect.
C14_CancelledUploadLeavesOrphanFile ==
    \A p \in Handlers :
        (hs[p].message.type = "UploadForCodeInterpreter"
            /\ hs[p].cancelled_at \in {"threads_retrieve", "threads_update"})
            => /\ hs[p].pc = "done"
               /\ hs[p].outcome = "cancelled"
               /\ hs[p].file \in vendor.files
               /\ hs[p].file \in Range(vendor.tool_resources.file_ids)
                    => /\ hs[p].cancelled_at = "threads_update"
                       /\ vendor.tool_resources.file_ids = hs[p].file_ids

\* The thread has a code interpreter with an empty list, the handler had the
\* list [file.id] ready to push, and the token aborted the update before it
\* took effect: the file is stored and the list is still empty.
C14_Witness ==
    \E p \in Handlers :
        /\ IsDone(p, "UploadForCodeInterpreter", "cancelled")
        /\ hs[p].cancelled_at = "threads_update"
        /\ hs[p].file_ids = <<hs[p].file>>
        /\ hs[p].file \in vendor.files
        /\ vendor.tool_resources.code_interpreter
        /\ vendor.tool_resources.file_ids = <<>>

\* C15: a Reset that got a delete status not reporting the message deleted
\* has ended at once with the AssertionError: that call was its last delete
\* call, and every id it collected after that one is still in the thread.
C15_FailedDeleteAbortsReset ==
    \A p \in Handlers :
        (hs[p].message.type = "Reset" /\ hs[p].delete_calls > Cardinality(hs[p].deleted))
            => /\ hs[p].pc = "done"
               /\ hs[p].outcome = "AssertionError"
               /\ hs[p].delete_calls = hs[p].del_i
               /\ Cardinality(hs[p].deleted) = hs[p].del_i - 1
               /\ ~hs[p].interfered =>
                    \A j \in (hs[p].del_i + 1)..Len(hs[p].all_msgs) :
                        hs[p].all_msgs[j] \in Range(Ids(vendor.thread))

\* The first delete of a Reset over three messages is refused: one delete
\* call was made and two collected messages were never reached.
C15_Witness ==
    \E p \in Handlers :
        /\ IsDone(p, "Reset", "AssertionError")
        /\ Len(hs[p].all_msgs) = 3
        /\ hs[p].delete_calls = 1
        /\ {hs[p].all_msgs[2], hs[p].all_msgs[3]} \subseteq Range(Ids(vendor.thread))

\* C16: the awaits of a TextMessage handler are entered in one fixed order,
\* each after the one before it returned: message create, run creation, run
\* done, leaving the stream, newest-message list.  The only call outstanding
\* is the last one entered; the user message exists before the run is
\* started, and a reply exists only after the whole order was gone through.
HandleMessageOrder ==
    <<"messages_create", "runs_stream", "until_done", "stream_exit", "messages_list_last">>

C16_HandleMessageOrder ==
    \A p \in Handlers :
        LET n == Len(hs[p].issued) IN
        hs[p].message.type = "TextMessage"
            => /\ n <= Len(HandleMessageOrder)
               /\ hs[p].issued = SubSeq(HandleMessageOrder, 1, n)
               /\ hs[p].pc # "done" => hs[p].pc = hs[p].issued[n]
               /\ n >= 2 => hs[p].my_msg # 0
               /\ hs[p].outcome \in {"returned", "ValueError", "IndexError"}
                    => hs[p].issued = HandleMessageOrder
               /\ hs[p].reply # NoReply => hs[p].outcome = "returned"

\* A TextMessage handler returned its reply after the five awaits.
C16_Witness ==
    \E p \in Handlers :
        /\ IsDone(p, "TextMessage", "returned")
        /\ hs[p].issued = HandleMessageOrder
        /\ hs[p].reply # NoReply

C13_ConcurrentUploadsLoseUpdate ==
    \A p, q \in Handlers :
        (/\ p # q
         /\ IsDone(p, "UploadForCodeInterpreter", "returned")
         /\ IsDone(q, "UploadForCodeInterpreter", "returned")
         /\ hs[p].tool_resources.file_ids = <<>>
         /\ hs[q].tool_resources.file_ids = <<>>)
            => /\ hs[p].file # hs[q].file
               /\ {hs[p].file, hs[q].file} \subseteq vendor.files
               /\ vendor.tool_resources.file_ids \in {<<hs[p].file>>, <<hs[q].file>>}

\* Both handlers read the empty list, the first slot wrote [its file], the
\* second overwrote it: both returned, and the first file is lost from the
\* list.
C13_Witness ==
    \E p, q \in Handlers :
        /\ p # q
        /\ IsDone(p, "UploadForCodeInterpreter", "returned")
        /\ IsDone(q, "UploadForCodeInterpreter", "returned")
        /\ hs[p].file_ids = <<hs[p].file>>
        /\ hs[q].file_ids = <<hs[q].file>>
        /\ vendor.tool_resources.file_ids = <<hs[q].file>>
        /\ hs[p].file \in vendor.files
        /\ hs[p].file \notin Range(vendor.tool_resources.file_ids)

\* C18: Reset collects, then deletes.  Once it has entered a delete call it
\* enters no list call again; every id it deleted is one it collected; and
\* it deleted no message created after its last list call returned, so such
\* a message outlives that Reset.
C18_ResetDeletesOnlyCollected ==
    \A p \in Handlers :
        hs[p].message.type = "Reset"
            => /\ \A i, j \in 1..Len(hs[p].issued) :
                    (i < j /\ hs[p].issued[i] = "messages_delete")
                        => hs[p].issued[j] = "messages_delete"
               /\ hs[p].delete_calls > 0 => hs[p].pc \in {"messages_delete", "done"}
               /\ hs[p].deleted \subseteq Range(hs[p].all_msgs)
               /\ \A id \in hs[p].deleted : id < hs[p].listed_upto

\* Reset deleted everything it collected and returned; the user message a
\* concurrent TextMessage handler created after Reset's last list call is in
\* the thread.
C18_Witness ==
    \E p, q \in Handlers :
        /\ IsDone(p, "Reset", "returned")
        /\ hs[p].deleted = Range(hs[p].all_msgs)
        /\ hs[p].deleted # {}
        /\ hs[q].message.type = "TextMessage"
        /\ hs[q].my_msg >= hs[p].listed_upto
        /\ hs[q].my_msg \in Range(Ids(vendor.thread))

\* C19: with deliveries one at a time (no other writer), no cancellation and
\* every list and delete call returning, a Reset in flight ends: the
\* pagination loop and the delete loop are both left, also when the vendor
\* sets has_more on a page that is empty or reaches the end of the thread.
C19_ResetTerminates ==
    \A p \in Handlers :
        (hs[p].message.type = "Reset" /\ hs[p].pc # "done") ~> (hs[p].pc = "done")

\* A vendor that sets has_more past the end: two messages, pages of two, the
\* second page came back empty with the flag set, and Reset deleted both
\* messages and returned.
C19_Witness ==
    \E p \in Handlers :
        /\ vendor.flag_past_end
        /\ vendor.page_size = 2
        /\ IsDone(p, "Reset", "returned")
        /\ Cardinality(hs[p].ids0) = 2
        /\ hs[p].list_calls = 2
        /\ hs[p].deleted = hs[p].ids0
====
